---- MODULE Spec2Model ----
(***************************************************************************)
(* Model of rust/src/connector/bybit/ws.rs: the three Bybit websocket      *)
(* sessions (public market data, private account stream, order entry),     *)
(* the event channel they send LiveEvent values on, and the order ledger   *)
(* (WrappedOrderManager) shared by the private and the trade session.      *)
(*                                                                         *)
(* A frame is modelled in its decoded form; a frame serde cannot decode    *)
(* is a variant of its own.  Option<T> is the empty set or a singleton.    *)
(* The receiving end of the event channel is alive for the whole run.      *)
(***************************************************************************)
EXTENDS Integers, Sequences, FiniteSets, TLC

\* Bounds of the model.
MaxIter == 2     \* loop iterations serviced by one session
MaxBatch == 2    \* items in one multi-item payload
MaxQueue == 2    \* unread requests in the intake queue

VARIABLES
    events,     \* the LiveEvent channel (ev_tx), in send order
    ledger,     \* the order ledger behind WrappedOrderManager
    lock,       \* holder of the ledger mutex: "none", "private" or "trade"
    pubSt,      \* connect_public: "init", "running", "ok", "err", "panicked"
    pubSent,    \* frames handed to the public socket's write half
    pubLog,     \* inputs serviced by the public loop, in order
    privSt,     \* connect_private: as pubSt
    privSent,   \* frames handed to the private socket's write half
    privLog,    \* inputs serviced by the private loop, in order
    privPc,     \* position inside handle_private_stream
    privItems,  \* items of the current batch still to process
    privRes,    \* result of the last ledger call of the private handler
    tradeSt,    \* connect_trade: as pubSt
    tradeSent,  \* frames handed to the trade socket's write half
    tradeLog,   \* inputs serviced by the trade loop, in order
    tradePc,    \* position inside handle_trade_stream
    tradeRes,   \* result of the last ledger call of the trade handler
    orderQ,     \* order_rx: [items: unread requests, closed: senders dropped]
    calls       \* reconciliation calls made on the ledger, in order

pubVars == <<pubSt, pubSent, pubLog>>
privVars == <<privSt, privSent, privLog, privPc, privItems, privRes>>
tradeVars == <<tradeSt, tradeSent, tradeLog, tradePc, tradeRes, orderQ>>
vars == <<events, ledger, lock, calls, pubVars, privVars, tradeVars>>

----------------------------------------------------------------------------
\* Helpers

\* All sequences over S of length 1..n.
SeqsUpTo(S, n) == UNION {[1..k -> S] : k \in 1..n}

\* Option<T>::unwrap on Some(v).
Unwrap(o) == CHOOSE v \in o : TRUE

RECURSIVE Concat(_)
Concat(ss) == IF ss = <<>> THEN <<>> ELSE Head(ss) \o Concat(Tail(ss))

\* Number of elements of s that satisfy Test.
Count(s, Test(_)) == Len(SelectSeq(s, Test))

----------------------------------------------------------------------------
\* The Asset mapping handed to connect_public / connect_private.

Assets == [BTCUSDT |-> 3, ETHUSDT |-> 5]

\* Symbols the venue may name; XRPUSDT is not in the mapping.
Symbols == {"BTCUSDT", "ETHUSDT", "XRPUSDT"}

\* assets.get(&symbol): Some(asset_no) or None.
AssetGet(symbol) == IF symbol \in DOMAIN Assets THEN {Assets[symbol]} ELSE {}

\* Outcome of one write.send(..).await / of one socket operation.
IoOutcomes == {"ok", "fail"}

\* The keepalive Op written on every interval tick.
PingOp == [op |-> "ping", req_id |-> "ping", args |-> <<>>]

\* Message::Pong(Vec::new()), the reply to an inbound protocol ping.
PongMsg == [op |-> "pong", req_id |-> "", args |-> <<>>]

\* Non-text inbound messages that the loops ignore.
IgnoredKinds == {"binary", "pong", "frame"}

----------------------------------------------------------------------------
\* Numeric strings of order-book levels and str::parse::<f32>.
\* A parsed value is kept in tenths; a string outside the table does not parse.

NumTable == [s \in {"100.5", "100.6", "1", "2"} |->
                CASE s = "100.5" -> 1005
                  [] s = "100.6" -> 1006
                  [] s = "1" -> 10
                  [] s = "2" -> 20]

ParseErr == [ok |-> FALSE]

ParseF32(s) == IF s \in DOMAIN NumTable THEN [ok |-> TRUE, v |-> NumTable[s]]
               ELSE ParseErr

\* parse_px_qty_tup: both fields must parse.
parse_px_qty_tup(px, qty) ==
    LET p == ParseF32(px)
        q == ParseF32(qty)
    IN  IF p.ok /\ q.ok THEN [ok |-> TRUE, v |-> <<p.v, q.v>>] ELSE ParseErr

RECURSIVE ParseLevels(_)
ParseLevels(levels) ==
    IF levels = <<>> THEN [ok |-> TRUE, v |-> <<>>]
    ELSE LET h == parse_px_qty_tup(Head(levels)[1], Head(levels)[2])
             t == ParseLevels(Tail(levels))
         IN  IF h.ok /\ t.ok THEN [ok |-> TRUE, v |-> <<h.v>> \o t.v]
             ELSE ParseErr

\* parse_depth: bids then asks, the first failure fails the whole call.
parse_depth(bids, asks) ==
    LET b == ParseLevels(bids)
        a == ParseLevels(asks)
    IN  IF b.ok /\ a.ok THEN [ok |-> TRUE, bids |-> b.v, asks |-> a.v]
        ELSE ParseErr

----------------------------------------------------------------------------
\* LiveEvent values (local_ts, the local clock reading, is left out).

DepthEv(asset_no, cts, bids, asks) ==
    [type |-> "Depth", asset_no |-> asset_no, exch_ts |-> cts * 1000000,
     bids |-> bids, asks |-> asks]

\* side: SELL (-1) for Side::Sell, BUY (1) otherwise.
TradeEv(asset_no, item) ==
    [type |-> "Trade", asset_no |-> asset_no, exch_ts |-> item.ts * 1000000,
     side |-> IF item.side = "Sell" THEN -1 ELSE 1,
     price |-> item.p, qty |-> item.v]

PositionEv(asset_no, item) ==
    [type |-> "Position", asset_no |-> asset_no, symbol |-> item.symbol,
     qty |-> item.position_value]

OrderEv(asset_no, order) ==
    [type |-> "Order", asset_no |-> asset_no, order |-> order]

ErrorEv(kind, code, msg) ==
    [type |-> "Error", kind |-> kind, code |-> code, msg |-> msg]

\* Result of a handler call: "ok" (Ok(())), "err" (Err(..)) or "panic",
\* with the events it sent and the frames it handed to the socket.
HRes(res, evs, out) == [res |-> res, evs |-> evs, out |-> out]

----------------------------------------------------------------------------
\* Public session: inbound frames

\* stream.topic.starts_with(prefix); a topic is <<topic name, symbol>>.
StartsWith(topic, prefix) == topic[1] = prefix

\* stream.data of an order-book topic: an OrderBook, or a value that
\* serde_json::from_value::<OrderBook> rejects.
BadData == [ok |-> FALSE]
OrderBooks == [ok : {TRUE}, s : {"BTCUSDT", "XRPUSDT"},
               b : {<< <<"100.5", "2">> >>, << <<"abc", "2">> >>},
               a : {<< <<"100.6", "1">> >>, << <<"100.6", "">> >>}]

\* msg::Trade items of a publicTrade payload.
TradeItems ==
    {[s |-> "BTCUSDT", side |-> "Buy", ts |-> 7, p |-> 1005, v |-> 20],
     [s |-> "ETHUSDT", side |-> "Sell", ts |-> 7, p |-> 1006, v |-> 10],
     [s |-> "XRPUSDT", side |-> "Buy", ts |-> 7, p |-> 1005, v |-> 20]}
TradeLists == [ok : {TRUE}, list : SeqsUpTo(TradeItems, MaxBatch)]

\* Option<i64> cts of a topic frame.
CtsValues == {{}, {7}}

PubTexts ==
    {[k |-> "malformed"], [k |-> "op"]}
    \cup [k : {"topic"}, topic : {<<"orderbook", "BTCUSDT">>}, cts : CtsValues,
          data : OrderBooks \cup {BadData}]
    \cup [k : {"topic"}, topic : {<<"publicTrade", "BTCUSDT">>}, cts : {{}},
          data : TradeLists \cup {BadData}]
    \cup [k : {"topic"}, topic : {<<"tickers", "BTCUSDT">>}, cts : {{}},
          data : {BadData}]

\* The publicTrade loop: one Trade event per item, stopped with
\* AssetNotFound by the first item whose symbol is not mapped.
RECURSIVE PubTradeLoop(_)
PubTradeLoop(items) ==
    IF items = <<>> THEN HRes("ok", <<>>, <<>>)
    ELSE LET a == AssetGet(Head(items).s)
         IN  IF a = {} THEN HRes("err", <<>>, <<>>)
             ELSE LET r == PubTradeLoop(Tail(items))
                  IN  HRes(r.res, <<TradeEv(Unwrap(a), Head(items))>> \o r.evs, <<>>)

\* The orderbook branch: decode, parse_depth, asset lookup, cts.unwrap(), send.
PubOrderBook(stream) ==
    IF ~stream.data.ok THEN HRes("err", <<>>, <<>>)
    ELSE LET d == parse_depth(stream.data.b, stream.data.a)
             a == AssetGet(stream.data.s)
         IN  IF ~d.ok THEN HRes("err", <<>>, <<>>)
             ELSE IF a = {} THEN HRes("err", <<>>, <<>>)
             ELSE IF stream.cts = {} THEN HRes("panic", <<>>, <<>>)
             ELSE HRes("ok", <<DepthEv(Unwrap(a), Unwrap(stream.cts), d.bids, d.asks)>>, <<>>)

handle_public_stream(text) ==
    IF text.k = "malformed" THEN HRes("err", <<>>, <<>>)
    ELSE IF text.k = "op" THEN HRes("ok", <<>>, <<>>)
    ELSE IF StartsWith(text.topic, "orderbook") THEN PubOrderBook(text)
    ELSE IF StartsWith(text.topic, "publicTrade") THEN
        IF ~text.data.ok THEN HRes("err", <<>>, <<>>)
        ELSE PubTradeLoop(text.data.list)
    ELSE HRes("ok", <<>>, <<>>)

----------------------------------------------------------------------------
\* connect_public

\* Topics the public session is configured with.
PubTopics == <<"orderbook.1", "publicTrade">>

\* assets.keys() in one of the orders the HashMap may iterate in.
KeyOrders == {o \in [1..Cardinality(DOMAIN Assets) -> DOMAIN Assets] :
                 \A i, j \in DOMAIN o : i # j => o[i] # o[j]}

\* args built from the first topic only.
PubSubscribeArgsFirstTopic(keys) ==
    [i \in DOMAIN keys |-> <<PubTopics[1], keys[i]>>]

\* args of the subscribe Op: for each topic in order, "{topic}.{symbol}"
\* for every key of the mapping.
PubSubscribeArgs(keys) ==
    Concat([t \in DOMAIN PubTopics |->
               [i \in DOMAIN keys |-> <<PubTopics[t], keys[i]>>]])

PubSubscribeOp(keys) ==
    [op |-> "subscribe", req_id |-> "subscribe", args |-> PubSubscribeArgs(keys)]

\* One serviced input of a loop: its source, the message, the outcome of the
\* socket write of the iteration ("none" without one), and the lengths of the
\* event channel and of the call record when the iteration began.
Entry(src, msg, io) ==
    [src |-> src, msg |-> msg, io |-> io, ev0 |-> Len(events), c0 |-> Len(calls)]
TickMsg == [kind |-> "tick"]
TextMsg(text) == [kind |-> "text", text |-> text]

\* Status after a write in the loop body: `?` returns the error.
AfterWrite(io) == IF io = "ok" THEN "running" ELSE "err"

\* Status after a handler call whose Err ends the loop.
AfterHandlerStopOnErr(res) ==
    IF res = "panic" THEN "panicked" ELSE IF res = "err" THEN "err" ELSE "running"

\* Status after a handler call whose Err the loop only logs.
AfterHandler(res) == IF res = "panic" THEN "panicked" ELSE "running"

PubCanStep == pubSt = "running" /\ Len(pubLog) < MaxIter

\* connect_async fails: the error is returned before anything is written.
PubConnectFail ==
    /\ pubSt = "init"
    /\ pubSt' = "err"
    /\ UNCHANGED <<events, ledger, lock, calls, pubSent, pubLog, privVars, tradeVars>>

\* The session is established and the subscribe Op is written.
PubConnect ==
    /\ pubSt = "init"
    /\ \E keys \in KeyOrders, io \in IoOutcomes :
          /\ pubSent' = Append(pubSent, PubSubscribeOp(keys))
          /\ pubSt' = AfterWrite(io)
    /\ UNCHANGED <<events, ledger, lock, calls, pubLog, privVars, tradeVars>>

\* interval.tick(): write the keepalive ping.
PubTick ==
    /\ PubCanStep
    /\ \E io \in IoOutcomes :
          /\ pubSent' = Append(pubSent, PingOp)
          /\ pubLog' = Append(pubLog, Entry("tick", TickMsg, io))
          /\ pubSt' = AfterWrite(io)
    /\ UNCHANGED <<events, ledger, lock, calls, privVars, tradeVars>>

\* Some(Ok(Message::Text(text))): handle it; an Err is logged.
PubText ==
    /\ PubCanStep
    /\ \E text \in PubTexts :
          LET r == handle_public_stream(text)
          IN  /\ events' = events \o r.evs
              /\ pubLog' = Append(pubLog, Entry("frame", TextMsg(text), "none"))
              /\ pubSt' = AfterHandler(r.res)
    /\ UNCHANGED <<ledger, lock, calls, pubSent, privVars, tradeVars>>

\* Binary, Pong and raw Frame messages are ignored.
PubIgnored ==
    /\ PubCanStep
    /\ \E k \in IgnoredKinds :
          pubLog' = Append(pubLog, Entry("frame", [kind |-> k], "none"))
    /\ UNCHANGED <<events, ledger, lock, calls, pubSt, pubSent, privVars, tradeVars>>

\* Some(Ok(Message::Ping(_))): reply with a Pong.
PubPing ==
    /\ PubCanStep
    /\ \E io \in IoOutcomes :
          /\ pubSent' = Append(pubSent, PongMsg)
          /\ pubLog' = Append(pubLog, Entry("frame", [kind |-> "ping"], io))
          /\ pubSt' = AfterWrite(io)
    /\ UNCHANGED <<events, ledger, lock, calls, privVars, tradeVars>>

\* Some(Ok(Message::Close(_))) or None: break, the function returns Ok(()).
PubClose ==
    /\ PubCanStep
    /\ \E k \in {"close", "eos"} :
          pubLog' = Append(pubLog, Entry("frame", [kind |-> k], "none"))
    /\ pubSt' = "ok"
    /\ UNCHANGED <<events, ledger, lock, calls, pubSent, privVars, tradeVars>>

\* Some(Err(e)): the read failed, the error is returned.
PubReadErr ==
    /\ PubCanStep
    /\ pubLog' = Append(pubLog, Entry("frame", [kind |-> "readerr"], "none"))
    /\ pubSt' = "err"
    /\ UNCHANGED <<events, ledger, lock, calls, pubSent, privVars, tradeVars>>

NextPublic ==
    \/ PubConnectFail
    \/ PubConnect
    \/ PubTick
    \/ PubText
    \/ PubIgnored
    \/ PubPing
    \/ PubClose
    \/ PubReadErr

----------------------------------------------------------------------------
\* The order ledger (ordermanager.rs is not part of the sources at hand; its
\* four reconciliation entry points follow the specification, section 4.3).

\* Request ids the ledger may hold, and one it never holds.
Ids == {"a", "b"}
UnknownId == "z"

Terminal == {"Filled", "SubmitRejected", "CancelRejected"}

Order(id, status, qty, exec_qty, cancel) ==
    [order_link_id |-> id, status |-> status, qty |-> qty,
     exec_qty |-> exec_qty, cancel |-> cancel]

LedgerEntry(asset_no, order) == [asset_no |-> asset_no, order |-> order]

\* Err(..) of a reconciliation call: the ledger is left as it was.
LErr(l) == [ok |-> FALSE, ledger |-> l]

\* Ok((asset_no, order)) of a reconciliation call and the ledger after it.
LOk(l, id, order) ==
    [ok |-> TRUE, asset_no |-> l[id].asset_no, order |-> order,
     ledger |-> [l EXCEPT ![id].order = order]]

\* update_order: the matched entry takes the venue-reported state.
update_order(l, item) ==
    IF item.id \notin DOMAIN l THEN LErr(l)
    ELSE IF l[item.id].order.status \in Terminal THEN LErr(l)
    ELSE LOk(l, item.id, [l[item.id].order EXCEPT !.status = item.status,
                                                   !.cancel = FALSE])

\* update_execution: accumulate the filled quantity.
update_execution(l, item) ==
    IF item.id \notin DOMAIN l THEN LErr(l)
    ELSE IF l[item.id].order.status \in Terminal THEN LErr(l)
    ELSE LET o == l[item.id].order
             filled == o.exec_qty + item.qty
         IN  LOk(l, item.id,
                 [o EXCEPT !.exec_qty = filled,
                           !.status = IF filled >= o.qty THEN "Filled"
                                      ELSE "PartiallyFilled"])

\* update_submit_fail that does not look at the state the entry is in.
update_submit_fail_any(l, id) ==
    IF id \notin DOMAIN l THEN LErr(l)
    ELSE LOk(l, id, [l[id].order EXCEPT !.status = "SubmitRejected"])

\* update_submit_fail: legal in New and Submitted only.
update_submit_fail(l, id) ==
    IF id \notin DOMAIN l THEN LErr(l)
    ELSE IF l[id].order.status \notin {"New", "Submitted"} THEN LErr(l)
    ELSE LOk(l, id, [l[id].order EXCEPT !.status = "SubmitRejected"])

\* update_cancel_fail: a cancel-pending entry goes back to its live state.
update_cancel_fail(l, id) ==
    IF id \notin DOMAIN l THEN LErr(l)
    ELSE IF l[id].order.status \in Terminal THEN LErr(l)
    ELSE LOk(l, id, [l[id].order EXCEPT !.cancel = FALSE])

\* Ledgers a session may start with.
InitLedgers ==
    {[a |-> LedgerEntry(3, Order("a", "Submitted", 2, 0, TRUE)),
      b |-> LedgerEntry(5, Order("b", "Filled", 2, 2, FALSE))]}

\* One reconciliation call as it is recorded.
Call(by, fn, arg, r) ==
    [by |-> by, fn |-> fn, arg |-> arg,
     res |-> IF r.ok THEN [ok |-> TRUE, asset_no |-> r.asset_no, order |-> r.order]
             ELSE [ok |-> FALSE]]

----------------------------------------------------------------------------
\* Private session: inbound frames

PosItems == [symbol : Symbols, position_value : {10}]
ExecItems == [id : {"a", UnknownId}, qty : {1}]
OrderItems == [id : {"a", UnknownId}, status : {"Canceled"}]

\* Op acknowledgements: success is Option<bool>.
PrivOps == [k : {"op"}, op : {"auth"}, success : {{}, {TRUE}, {FALSE}}]
           \cup [k : {"op"}, op : {"subscribe"}, success : {{TRUE}}]

PrivTexts ==
    {[k |-> "malformed"], [k |-> "unmatched"]}
    \cup PrivOps
    \cup [k : {"position"}, data : SeqsUpTo(PosItems, MaxBatch)]
    \cup [k : {"execution"}, data : SeqsUpTo(ExecItems, MaxBatch)]
    \cup [k : {"order"}, data : SeqsUpTo(OrderItems, MaxBatch)]

\* Texts whose handling takes the ledger lock.
PrivLocking == {t \in PrivTexts : t.k \in {"execution", "order"}}

\* The subscribe Op sent after a successful auth acknowledgement.
PrivSubscribeOp ==
    [op |-> "subscribe", req_id |-> "3", args |-> <<"position", "execution.fast">>]

\* The auth Op both authenticated sessions send first (args: key, expiry,
\* signature).
AuthOp == [op |-> "auth", req_id |-> "auth", args |-> <<"key", "expires", "sig">>]

\* The Op arm of handle_private_stream; subscribing on any auth
\* acknowledgement is the variant PrivOpAnyAuth.
PrivOpAnyAuth(resp, io) ==
    IF resp.op = "auth" THEN
        IF resp.success = {} THEN HRes("panic", <<>>, <<>>)
        ELSE HRes(IF io = "ok" THEN "ok" ELSE "err", <<>>, <<PrivSubscribeOp>>)
    ELSE HRes("ok", <<>>, <<>>)

\* The Op arm: resp.success.unwrap() on an auth acknowledgement, then the
\* subscribe write, whose failure is the handler's Err.
PrivOp(resp, io) ==
    IF resp.op = "auth" THEN
        IF resp.success = {} THEN HRes("panic", <<>>, <<>>)
        ELSE IF Unwrap(resp.success) THEN
            HRes(IF io = "ok" THEN "ok" ELSE "err", <<>>, <<PrivSubscribeOp>>)
        ELSE HRes("ok", <<>>, <<>>)
    ELSE HRes("ok", <<>>, <<>>)

\* The Position arm: one event per item, stopped with AssetNotFound by the
\* first item whose symbol is not mapped.
RECURSIVE PrivPositionLoop(_)
PrivPositionLoop(items) ==
    IF items = <<>> THEN HRes("ok", <<>>, <<>>)
    ELSE LET a == AssetGet(Head(items).symbol)
         IN  IF a = {} THEN HRes("err", <<>>, <<>>)
             ELSE LET r == PrivPositionLoop(Tail(items))
                  IN  HRes(r.res, <<PositionEv(Unwrap(a), Head(items))>> \o r.evs, <<>>)

\* handle_private_stream for the texts that do not touch the ledger.
handle_private_stream(text, io) ==
    IF text.k \in {"malformed", "unmatched"} THEN HRes("err", <<>>, <<>>)
    ELSE IF text.k = "op" THEN PrivOp(text, io)
    ELSE PrivPositionLoop(text.data)

\* Items left after a reconciliation call that skips the rest of the batch
\* when the ledger rejects an item.
PrivRestAbort(r, items) == IF r.ok THEN Tail(items) ELSE <<>>

\* Items left after a reconciliation call: the Err arm only logs, the for
\* loop goes on with the next item.
PrivRest(r, items) == Tail(items)

----------------------------------------------------------------------------
\* connect_private

PrivCanStep == privSt = "running" /\ privPc = "select" /\ Len(privLog) < MaxIter

\* connect_async fails: the error is returned before anything is written.
PrivConnectFail ==
    /\ privSt = "init"
    /\ privSt' = "err"
    /\ UNCHANGED <<events, ledger, lock, calls, pubVars, privSent, privLog, privPc,
                   privItems, privRes, tradeVars>>

\* The session is established and the auth Op is written.
PrivConnect ==
    /\ privSt = "init"
    /\ \E io \in IoOutcomes :
          /\ privSent' = Append(privSent, AuthOp)
          /\ privSt' = AfterWrite(io)
    /\ UNCHANGED <<events, ledger, lock, calls, pubVars, privLog, privPc,
                   privItems, privRes, tradeVars>>

\* interval.tick(): write the keepalive ping.
PrivTick ==
    /\ PrivCanStep
    /\ \E io \in IoOutcomes :
          /\ privSent' = Append(privSent, PingOp)
          /\ privLog' = Append(privLog, Entry("tick", TickMsg, io))
          /\ privSt' = AfterWrite(io)
    /\ UNCHANGED <<events, ledger, lock, calls, pubVars, privPc, privItems,
                   privRes, tradeVars>>

\* Some(Ok(Message::Text(text))) for a text that does not touch the ledger:
\* the handler runs to its end; whatever it returns, the loop goes on.
PrivText ==
    /\ PrivCanStep
    /\ \E text \in PrivTexts \ PrivLocking, io \in IoOutcomes :
          LET r == handle_private_stream(text, io)
          IN  /\ events' = events \o r.evs
              /\ privSent' = privSent \o r.out
              /\ privLog' = Append(privLog,
                     Entry("frame", TextMsg(text), IF r.out = <<>> THEN "none" ELSE io))
              /\ privSt' = AfterHandler(r.res)
    /\ UNCHANGED <<ledger, lock, calls, pubVars, privPc, privItems, privRes, tradeVars>>

\* Some(Ok(Message::Text(text))) for an execution or order batch: the
\* handler enters the arm of the topic.
PrivBatch ==
    /\ PrivCanStep
    /\ \E text \in PrivLocking :
          /\ privLog' = Append(privLog, Entry("frame", TextMsg(text), "none"))
          /\ privItems' = text.data
          /\ privPc' = IF text.k = "execution" THEN "exec_lock" ELSE "order_lock"
    /\ UNCHANGED <<events, ledger, lock, calls, pubVars, privSt, privSent,
                   privRes, tradeVars>>

\* FastExecution arm: order_man.lock() before the for loop.
PrivExecLock ==
    /\ privPc = "exec_lock"
    /\ lock = "none"
    /\ lock' = "private"
    /\ privPc' = "exec_call"
    /\ UNCHANGED <<events, ledger, calls, pubVars, privSt, privSent, privLog,
                   privItems, privRes, tradeVars>>

\* FastExecution arm: update_execution(&item) under the lock.
PrivExecCall ==
    /\ privPc = "exec_call"
    /\ privItems # <<>>
    /\ LET r == update_execution(ledger, Head(privItems))
       IN  /\ ledger' = r.ledger
           /\ calls' = Append(calls, Call("private", "update_execution", Head(privItems), r))
           /\ privRes' = r
           /\ privItems' = PrivRest(r, privItems)
           /\ privPc' = IF r.ok THEN "exec_send" ELSE "exec_call"
    /\ UNCHANGED <<events, lock, pubVars, privSt, privSent, privLog, tradeVars>>

\* FastExecution arm: send the OrderResponse of the Ok arm.
PrivExecSend ==
    /\ privPc = "exec_send"
    /\ events' = Append(events, OrderEv(privRes.asset_no, privRes.order))
    /\ privPc' = "exec_call"
    /\ UNCHANGED <<ledger, lock, calls, pubVars, privSt, privSent, privLog,
                   privItems, privRes, tradeVars>>

\* FastExecution arm: the loop is over, the guard is dropped with the arm.
PrivExecUnlock ==
    /\ privPc = "exec_call"
    /\ privItems = <<>>
    /\ lock' = "none"
    /\ privPc' = "select"
    /\ UNCHANGED <<events, ledger, calls, pubVars, privSt, privSent, privLog,
                   privItems, privRes, tradeVars>>

\* Order arm: order_man.lock() at the top of each iteration.
PrivOrderLock ==
    /\ privPc = "order_lock"
    /\ lock = "none"
    /\ lock' = "private"
    /\ privPc' = "order_call"
    /\ UNCHANGED <<events, ledger, calls, pubVars, privSt, privSent, privLog,
                   privItems, privRes, tradeVars>>

\* Order arm: update_order(&item) under the lock.
PrivOrderCall ==
    /\ privPc = "order_call"
    /\ LET r == update_order(ledger, Head(privItems))
       IN  /\ ledger' = r.ledger
           /\ calls' = Append(calls, Call("private", "update_order", Head(privItems), r))
           /\ privRes' = r
           /\ privItems' = PrivRest(r, privItems)
           /\ privPc' = IF r.ok THEN "order_send" ELSE "order_unlock"
    /\ UNCHANGED <<events, lock, pubVars, privSt, privSent, privLog, tradeVars>>

\* Order arm: send the OrderResponse of the Ok arm.
PrivOrderSend ==
    /\ privPc = "order_send"
    /\ events' = Append(events, OrderEv(privRes.asset_no, privRes.order))
    /\ privPc' = "order_unlock"
    /\ UNCHANGED <<ledger, lock, calls, pubVars, privSt, privSent, privLog,
                   privItems, privRes, tradeVars>>

\* Order arm: the guard is dropped at the end of the iteration.
PrivOrderUnlock ==
    /\ privPc = "order_unlock"
    /\ lock' = "none"
    /\ privPc' = IF privItems = <<>> THEN "select" ELSE "order_lock"
    /\ UNCHANGED <<events, ledger, calls, pubVars, privSt, privSent, privLog,
                   privItems, privRes, tradeVars>>

\* Binary, Pong and raw Frame messages are ignored.
PrivIgnored ==
    /\ PrivCanStep
    /\ \E k \in IgnoredKinds :
          privLog' = Append(privLog, Entry("frame", [kind |-> k], "none"))
    /\ UNCHANGED <<events, ledger, lock, calls, pubVars, privSt, privSent, privPc,
                   privItems, privRes, tradeVars>>

\* Some(Ok(Message::Ping(_))): reply with a Pong.
PrivPing ==
    /\ PrivCanStep
    /\ \E io \in IoOutcomes :
          /\ privSent' = Append(privSent, PongMsg)
          /\ privLog' = Append(privLog, Entry("frame", [kind |-> "ping"], io))
          /\ privSt' = AfterWrite(io)
    /\ UNCHANGED <<events, ledger, lock, calls, pubVars, privPc, privItems,
                   privRes, tradeVars>>

\* Some(Ok(Message::Close(_))) or None: break, the function returns Ok(()).
PrivClose ==
    /\ PrivCanStep
    /\ \E k \in {"close", "eos"} :
          privLog' = Append(privLog, Entry("frame", [kind |-> k], "none"))
    /\ privSt' = "ok"
    /\ UNCHANGED <<events, ledger, lock, calls, pubVars, privSent, privPc,
                   privItems, privRes, tradeVars>>

\* Some(Err(e)): the read failed, the error is returned.
PrivReadErr ==
    /\ PrivCanStep
    /\ privLog' = Append(privLog, Entry("frame", [kind |-> "readerr"], "none"))
    /\ privSt' = "err"
    /\ UNCHANGED <<events, ledger, lock, calls, pubVars, privSent, privPc,
                   privItems, privRes, tradeVars>>

NextPrivate ==
    \/ PrivConnectFail
    \/ PrivConnect
    \/ PrivTick
    \/ PrivText
    \/ PrivBatch
    \/ PrivExecLock
    \/ PrivExecCall
    \/ PrivExecSend
    \/ PrivExecUnlock
    \/ PrivOrderLock
    \/ PrivOrderCall
    \/ PrivOrderSend
    \/ PrivOrderUnlock
    \/ PrivIgnored
    \/ PrivPing
    \/ PrivClose
    \/ PrivReadErr

----------------------------------------------------------------------------
\* Trade session: inbound frames and order requests

\* Venue result codes: success, and 10429 (frequency protection).
RetCodes == {0, 10429}

RetMsg(code) == IF code = 0 THEN "OK" ELSE "rate limited"

TradeAcks ==
    {[k |-> "ack", op |-> o, ret_code |-> c, ret_msg |-> RetMsg(c), req_id |-> r] :
        o \in {"order.create", "order.cancel"}, c \in RetCodes,
        r \in {{}, {"a"}, {"b"}, {UnknownId}}}
    \cup {[k |-> "ack", op |-> "auth", ret_code |-> c, ret_msg |-> RetMsg(c),
           req_id |-> {"auth"}] : c \in RetCodes}
    \cup {[k |-> "ack", op |-> "pong", ret_code |-> 0, ret_msg |-> "OK", req_id |-> {}]}

TradeTexts == {[k |-> "malformed"]} \cup TradeAcks

\* Every order.create / order.cancel acknowledgement with a req_id taken to
\* the ledger, whatever its result code.
TradeLockingAnyCode ==
    {t \in TradeAcks : /\ t.op \in {"order.create", "order.cancel"}
                       /\ t.req_id # {}}

\* Acknowledgements whose handling takes the ledger lock: a failed
\* order.create / order.cancel that carries a req_id.
TradeLocking ==
    {t \in TradeAcks : /\ t.op \in {"order.create", "order.cancel"}
                       /\ t.req_id # {}
                       /\ t.ret_code # 0}

\* BybitOrderReq values the engine may submit.
OrderReqs == [op : {"order.create", "order.cancel"}, order_link_id : {"a"}]

\* A TradeOp whose req_id is the operation name instead of the request's
\* order_link_id.
TradeOpReqIdFromOp(req) ==
    [op |-> req.op, req_id |-> req.op,
     header |-> [timestamp |-> "now", recv_window |-> "5000"],
     args |-> <<req.order_link_id>>]

\* The TradeOp written for a dequeued request.
TradeOp(req) ==
    [op |-> req.op, req_id |-> req.order_link_id,
     header |-> [timestamp |-> "now", recv_window |-> "5000"],
     args |-> <<req.order_link_id>>]

\* handle_trade_stream with the req_id of an order acknowledgement unwrapped
\* instead of turned into Err(ReqIdNotExist).
handle_trade_stream_unwrap(stream) ==
    IF stream.k = "malformed" THEN HRes("err", <<>>, <<>>)
    ELSE IF stream.op = "auth" THEN
        IF stream.ret_code # 0 THEN
            HRes("err", <<ErrorEv("CriticalConnectionError", stream.ret_code,
                                  stream.ret_msg)>>, <<>>)
        ELSE HRes("ok", <<>>, <<>>)
    ELSE IF stream.op \in {"order.create", "order.cancel"} THEN
        IF stream.req_id = {} THEN HRes("panic", <<>>, <<>>)
        ELSE HRes("ok", <<>>, <<>>)
    ELSE HRes("ok", <<>>, <<>>)

\* handle_trade_stream for the texts that do not touch the ledger.
handle_trade_stream(stream) ==
    IF stream.k = "malformed" THEN HRes("err", <<>>, <<>>)
    ELSE IF stream.op = "auth" THEN
        IF stream.ret_code # 0 THEN
            HRes("err", <<ErrorEv("CriticalConnectionError", stream.ret_code,
                                  stream.ret_msg)>>, <<>>)
        ELSE HRes("ok", <<>>, <<>>)
    ELSE IF stream.op \in {"order.create", "order.cancel"} THEN
        IF stream.req_id = {} THEN HRes("err", <<>>, <<>>)
        ELSE HRes("ok", <<>>, <<>>)
    ELSE HRes("ok", <<>>, <<>>)

\* The reconciliation call of a failed acknowledgement.
TradeFailFn(stream) ==
    IF stream.op = "order.create" THEN "update_submit_fail" ELSE "update_cancel_fail"

TradeFailCall(l, stream) ==
    IF stream.op = "order.create" THEN update_submit_fail(l, Unwrap(stream.req_id))
    ELSE update_cancel_fail(l, Unwrap(stream.req_id))

\* The events of a failed acknowledgement with the Error sent first.
TradeFailEventsSwapped(r, stream) ==
    <<ErrorEv("OrderError", stream.ret_code, stream.ret_msg),
      OrderEv(r.asset_no, r.order)>>

\* The events sent after the reconciliation call of a failed acknowledgement
\* returned Ok: the OrderResponse, then the OrderError.
TradeFailEvents(r, stream) ==
    <<OrderEv(r.asset_no, r.order),
      ErrorEv("OrderError", stream.ret_code, stream.ret_msg)>>

----------------------------------------------------------------------------
\* connect_trade

\* A select that polls its sources while a handler is still at work.
TradeCanStepAnyPc == tradeSt = "running" /\ Len(tradeLog) < MaxIter

TradeCanStep == tradeSt = "running" /\ tradePc = "select" /\ Len(tradeLog) < MaxIter

\* The text the trade handler is working on.
TradeCur == tradeLog[Len(tradeLog)].msg.text

\* The engine puts a request on the intake queue.
EngineSubmit ==
    /\ ~orderQ.closed
    /\ Len(orderQ.items) < MaxQueue
    /\ \E req \in OrderReqs : orderQ' = [orderQ EXCEPT !.items = Append(@, req)]
    /\ UNCHANGED <<events, ledger, lock, calls, pubVars, privVars, tradeSt,
                   tradeSent, tradeLog, tradePc, tradeRes>>

\* The engine drops the sending half of the intake queue.
EngineClose ==
    /\ ~orderQ.closed
    /\ orderQ' = [orderQ EXCEPT !.closed = TRUE]
    /\ UNCHANGED <<events, ledger, lock, calls, pubVars, privVars, tradeSt,
                   tradeSent, tradeLog, tradePc, tradeRes>>

\* connect_async fails: the error is returned before anything is written.
TradeConnectFail ==
    /\ tradeSt = "init"
    /\ tradeSt' = "err"
    /\ UNCHANGED <<events, ledger, lock, calls, pubVars, privVars, tradeSent,
                   tradeLog, tradePc, tradeRes, orderQ>>

\* The session is established and the auth TradeOp is written.
TradeConnect ==
    /\ tradeSt = "init"
    /\ \E io \in IoOutcomes :
          /\ tradeSent' = Append(tradeSent, AuthOp)
          /\ tradeSt' = AfterWrite(io)
    /\ UNCHANGED <<events, ledger, lock, calls, pubVars, privVars, tradeLog,
                   tradePc, tradeRes, orderQ>>

\* interval.tick(): write the keepalive ping.
TradeTick ==
    /\ TradeCanStep
    /\ \E io \in IoOutcomes :
          /\ tradeSent' = Append(tradeSent, PingOp)
          /\ tradeLog' = Append(tradeLog, Entry("tick", TickMsg, io))
          /\ tradeSt' = AfterWrite(io)
    /\ UNCHANGED <<events, ledger, lock, calls, pubVars, privVars, tradePc,
                   tradeRes, orderQ>>

\* order_rx.recv() yields Some(order): write its TradeOp.
TradeOrder ==
    /\ TradeCanStep
    /\ orderQ.items # <<>>
    /\ \E io \in IoOutcomes :
          LET req == Head(orderQ.items)
          IN  /\ tradeSent' = Append(tradeSent, TradeOp(req))
              /\ tradeLog' = Append(tradeLog,
                     Entry("order", [kind |-> "order", req |-> req], io))
              /\ tradeSt' = AfterWrite(io)
    /\ orderQ' = [orderQ EXCEPT !.items = Tail(@)]
    /\ UNCHANGED <<events, ledger, lock, calls, pubVars, privVars, tradePc, tradeRes>>

\* order_rx.recv() yields None and the loop goes round again instead of
\* breaking.
TradeQueueClosedNoBreak ==
    /\ TradeCanStep
    /\ orderQ.items = <<>>
    /\ orderQ.closed
    /\ tradeLog' = Append(tradeLog, Entry("order", [kind |-> "closed"], "none"))
    /\ UNCHANGED <<events, ledger, lock, calls, pubVars, privVars, tradeSt, tradeSent,
                   tradePc, tradeRes, orderQ>>

\* order_rx.recv() yields None (queue empty, senders dropped): break.
TradeQueueClosed ==
    /\ TradeCanStep
    /\ orderQ.items = <<>>
    /\ orderQ.closed
    /\ tradeLog' = Append(tradeLog, Entry("order", [kind |-> "closed"], "none"))
    /\ tradeSt' = "ok"
    /\ UNCHANGED <<events, ledger, lock, calls, pubVars, privVars, tradeSent,
                   tradePc, tradeRes, orderQ>>

\* Some(Ok(Message::Text(text))) for a text that does not touch the ledger:
\* the handler runs to its end; an Err is logged and the loop goes on.
TradeText ==
    /\ TradeCanStep
    /\ \E text \in TradeTexts \ TradeLocking :
          LET r == handle_trade_stream(text)
          IN  /\ events' = events \o r.evs
              /\ tradeLog' = Append(tradeLog, Entry("frame", TextMsg(text), "none"))
              /\ tradeSt' = AfterHandler(r.res)
    /\ UNCHANGED <<ledger, lock, calls, pubVars, privVars, tradeSent, tradePc,
                   tradeRes, orderQ>>

\* Some(Ok(Message::Text(text))) for a failed order.create / order.cancel
\* acknowledgement with a req_id: the handler reaches order_man.lock().
TradeFailedAck ==
    /\ TradeCanStep
    /\ \E text \in TradeLocking :
          tradeLog' = Append(tradeLog, Entry("frame", TextMsg(text), "none"))
    /\ tradePc' = "lock"
    /\ UNCHANGED <<events, ledger, lock, calls, pubVars, privVars, tradeSt,
                   tradeSent, tradeRes, orderQ>>

\* order_man.lock().
TradeLock ==
    /\ tradePc = "lock"
    /\ lock = "none"
    /\ lock' = "trade"
    /\ tradePc' = "call"
    /\ UNCHANGED <<events, ledger, calls, pubVars, privVars, tradeSt, tradeSent,
                   tradeLog, tradeRes, orderQ>>

\* The reconciliation call with its result unwrapped: an Err panics the task
\* (the guard is dropped by the unwinding).
TradeCallUnwrap ==
    /\ tradePc = "call"
    /\ LET r == TradeFailCall(ledger, TradeCur)
       IN  /\ ledger' = r.ledger
           /\ calls' = Append(calls,
                  Call("trade", TradeFailFn(TradeCur), Unwrap(TradeCur.req_id), r))
           /\ IF r.ok
              THEN /\ tradeRes' = TradeFailEvents(r, TradeCur)
                   /\ tradePc' = "send"
                   /\ lock' = lock
                   /\ tradeSt' = tradeSt
              ELSE /\ tradeRes' = <<>>
                   /\ tradePc' = "select"
                   /\ lock' = "none"
                   /\ tradeSt' = "panicked"
    /\ UNCHANGED <<events, pubVars, privVars, tradeSent, tradeLog, orderQ>>

\* The reconciliation call with the guard leaked on the Err return.
TradeCallKeepsLock ==
    /\ tradePc = "call"
    /\ LET r == TradeFailCall(ledger, TradeCur)
       IN  /\ ledger' = r.ledger
           /\ calls' = Append(calls,
                  Call("trade", TradeFailFn(TradeCur), Unwrap(TradeCur.req_id), r))
           /\ IF r.ok
              THEN /\ tradeRes' = TradeFailEvents(r, TradeCur)
                   /\ tradePc' = "send"
              ELSE /\ tradeRes' = <<>>
                   /\ tradePc' = "select"
    /\ UNCHANGED <<events, lock, pubVars, privVars, tradeSt, tradeSent, tradeLog, orderQ>>

\* update_submit_fail / update_cancel_fail under the lock.  On Err the `?`
\* returns from the handler, which drops the guard; the loop logs the error.
TradeCall ==
    /\ tradePc = "call"
    /\ LET r == TradeFailCall(ledger, TradeCur)
       IN  /\ ledger' = r.ledger
           /\ calls' = Append(calls,
                  Call("trade", TradeFailFn(TradeCur), Unwrap(TradeCur.req_id), r))
           /\ IF r.ok
              THEN /\ tradeRes' = TradeFailEvents(r, TradeCur)
                   /\ tradePc' = "send"
                   /\ lock' = lock
              ELSE /\ tradeRes' = <<>>
                   /\ tradePc' = "select"
                   /\ lock' = "none"
    /\ UNCHANGED <<events, pubVars, privVars, tradeSt, tradeSent, tradeLog, orderQ>>

\* ev_tx.send(..) of the next event of the failed acknowledgement.
TradeSend ==
    /\ tradePc = "send"
    /\ tradeRes # <<>>
    /\ events' = Append(events, Head(tradeRes))
    /\ tradeRes' = Tail(tradeRes)
    /\ UNCHANGED <<ledger, lock, calls, pubVars, privVars, tradeSt, tradeSent,
                   tradeLog, tradePc, orderQ>>

\* Both events are sent: the guard is dropped at the end of the if block.
TradeUnlock ==
    /\ tradePc = "send"
    /\ tradeRes = <<>>
    /\ lock' = "none"
    /\ tradePc' = "select"
    /\ UNCHANGED <<events, ledger, calls, pubVars, privVars, tradeSt, tradeSent,
                   tradeLog, tradeRes, orderQ>>

\* Binary, Pong and raw Frame messages are ignored.
TradeIgnored ==
    /\ TradeCanStep
    /\ \E k \in IgnoredKinds :
          tradeLog' = Append(tradeLog, Entry("frame", [kind |-> k], "none"))
    /\ UNCHANGED <<events, ledger, lock, calls, pubVars, privVars, tradeSt,
                   tradeSent, tradePc, tradeRes, orderQ>>

\* Some(Ok(Message::Ping(_))): reply with a Pong.
TradePing ==
    /\ TradeCanStep
    /\ \E io \in IoOutcomes :
          /\ tradeSent' = Append(tradeSent, PongMsg)
          /\ tradeLog' = Append(tradeLog, Entry("frame", [kind |-> "ping"], io))
          /\ tradeSt' = AfterWrite(io)
    /\ UNCHANGED <<events, ledger, lock, calls, pubVars, privVars, tradePc,
                   tradeRes, orderQ>>

\* Some(Ok(Message::Close(_))) or None: break, the function returns Ok(()).
TradeClose ==
    /\ TradeCanStep
    /\ \E k \in {"close", "eos"} :
          tradeLog' = Append(tradeLog, Entry("frame", [kind |-> k], "none"))
    /\ tradeSt' = "ok"
    /\ UNCHANGED <<events, ledger, lock, calls, pubVars, privVars, tradeSent,
                   tradePc, tradeRes, orderQ>>

\* Some(Err(e)): the read failed, the error is returned.
TradeReadErr ==
    /\ TradeCanStep
    /\ tradeLog' = Append(tradeLog, Entry("frame", [kind |-> "readerr"], "none"))
    /\ tradeSt' = "err"
    /\ UNCHANGED <<events, ledger, lock, calls, pubVars, privVars, tradeSent,
                   tradePc, tradeRes, orderQ>>

NextTrade ==
    \/ EngineSubmit
    \/ EngineClose
    \/ TradeConnectFail
    \/ TradeConnect
    \/ TradeTick
    \/ TradeOrder
    \/ TradeQueueClosed
    \/ TradeText
    \/ TradeFailedAck
    \/ TradeLock
    \/ TradeCall
    \/ TradeSend
    \/ TradeUnlock
    \/ TradeIgnored
    \/ TradePing
    \/ TradeClose
    \/ TradeReadErr

----------------------------------------------------------------------------
\* Specifications

Init ==
    /\ events = <<>>
    /\ ledger \in InitLedgers
    /\ lock = "none"
    /\ calls = <<>>
    /\ pubSt = "init" /\ pubSent = <<>> /\ pubLog = <<>>
    /\ privSt = "init" /\ privSent = <<>> /\ privLog = <<>>
    /\ privPc = "select" /\ privItems = <<>> /\ privRes = [ok |-> FALSE]
    /\ tradeSt = "init" /\ tradeSent = <<>> /\ tradeLog = <<>>
    /\ tradePc = "select" /\ tradeRes = <<>>
    /\ orderQ = [items |-> <<>>, closed |-> FALSE]

Next == NextPublic \/ NextPrivate \/ NextTrade

\* The three sessions side by side.
Spec == Init /\ [][Next]_vars

\* One session on its own.
SpecPublic == Init /\ [][NextPublic]_vars
SpecPrivate == Init /\ [][NextPrivate]_vars
SpecTrade == Init /\ [][NextTrade]_vars

\* Any one of the three sessions, run on its own from start to end: a session
\* starts only while the other two have not (and, for the public and the
\* private one, while the engine has not touched the intake queue).
NoOrdersYet == orderQ = [items |-> <<>>, closed |-> FALSE]

OnlyPublic == privSt = "init" /\ tradeSt = "init" /\ NoOrdersYet

OnlyPrivate == pubSt = "init" /\ tradeSt = "init" /\ NoOrdersYet

OnlyTrade == pubSt = "init" /\ privSt = "init"

NextEach ==
    \/ OnlyPublic /\ PubConnectFail
    \/ OnlyPublic /\ PubConnect
    \/ OnlyPublic /\ PubTick
    \/ OnlyPublic /\ PubText
    \/ OnlyPublic /\ PubIgnored
    \/ OnlyPublic /\ PubPing
    \/ OnlyPublic /\ PubClose
    \/ OnlyPublic /\ PubReadErr
    \/ OnlyPrivate /\ PrivConnectFail
    \/ OnlyPrivate /\ PrivConnect
    \/ OnlyPrivate /\ PrivTick
    \/ OnlyPrivate /\ PrivText
    \/ OnlyPrivate /\ PrivBatch
    \/ OnlyPrivate /\ PrivExecLock
    \/ OnlyPrivate /\ PrivExecCall
    \/ OnlyPrivate /\ PrivExecSend
    \/ OnlyPrivate /\ PrivExecUnlock
    \/ OnlyPrivate /\ PrivOrderLock
    \/ OnlyPrivate /\ PrivOrderCall
    \/ OnlyPrivate /\ PrivOrderSend
    \/ OnlyPrivate /\ PrivOrderUnlock
    \/ OnlyPrivate /\ PrivIgnored
    \/ OnlyPrivate /\ PrivPing
    \/ OnlyPrivate /\ PrivClose
    \/ OnlyPrivate /\ PrivReadErr
    \/ OnlyTrade /\ EngineSubmit
    \/ OnlyTrade /\ EngineClose
    \/ OnlyTrade /\ TradeConnectFail
    \/ OnlyTrade /\ TradeConnect
    \/ OnlyTrade /\ TradeTick
    \/ OnlyTrade /\ TradeOrder
    \/ OnlyTrade /\ TradeQueueClosed
    \/ OnlyTrade /\ TradeText
    \/ OnlyTrade /\ TradeFailedAck
    \/ OnlyTrade /\ TradeLock
    \/ OnlyTrade /\ TradeCall
    \/ OnlyTrade /\ TradeSend
    \/ OnlyTrade /\ TradeUnlock
    \/ OnlyTrade /\ TradeIgnored
    \/ OnlyTrade /\ TradePing
    \/ OnlyTrade /\ TradeClose
    \/ OnlyTrade /\ TradeReadErr

SpecEach == Init /\ [][NextEach]_vars

\* The private and the trade session side by side on the shared ledger: the
\* steps of the two handlers that take the lock, call the ledger and send the
\* results, interleaved freely.  The two sessions share one budget of frames.
LedgerBudget == Len(privLog) + Len(tradeLog) < MaxIter

LedgerPrivBatch == LedgerBudget /\ PrivBatch

LedgerTradeFailedAck == LedgerBudget /\ TradeFailedAck

NextLedger ==
    \/ PrivConnect
    \/ LedgerPrivBatch
    \/ PrivExecLock
    \/ PrivExecCall
    \/ PrivExecSend
    \/ PrivExecUnlock
    \/ PrivOrderLock
    \/ PrivOrderCall
    \/ PrivOrderSend
    \/ PrivOrderUnlock
    \/ TradeConnect
    \/ LedgerTradeFailedAck
    \/ TradeLock
    \/ TradeCall
    \/ TradeSend
    \/ TradeUnlock

SpecLedger == Init /\ [][NextLedger]_vars

\* The steps each handler takes between order_man.lock() and the end of the
\* frame.  Inside there is no await and no blocking call, so a handler that
\* can take its next step does take it.
PrivLedgerSteps ==
    \/ PrivExecLock
    \/ PrivExecCall
    \/ PrivExecSend
    \/ PrivExecUnlock
    \/ PrivOrderLock
    \/ PrivOrderCall
    \/ PrivOrderSend
    \/ PrivOrderUnlock

TradeLedgerSteps ==
    \/ TradeLock
    \/ TradeCall
    \/ TradeSend
    \/ TradeUnlock

\* One frame in the hands of each handler at the same time: the private
\* handler works through one execution or order batch while the trade handler
\* reconciles one failed acknowledgement, their steps interleaved freely.
LockPrivBatch == privLog = <<>> /\ PrivBatch

LockTradeFailedAck == tradeLog = <<>> /\ TradeFailedAck

NextLock ==
    \/ PrivConnect
    \/ LockPrivBatch
    \/ PrivExecLock
    \/ PrivExecCall
    \/ PrivExecSend
    \/ PrivExecUnlock
    \/ PrivOrderLock
    \/ PrivOrderCall
    \/ PrivOrderSend
    \/ PrivOrderUnlock
    \/ TradeConnect
    \/ LockTradeFailedAck
    \/ TradeLock
    \/ TradeCall
    \/ TradeSend
    \/ TradeUnlock

SpecLockFair ==
    /\ Init
    /\ [][NextLock]_vars
    /\ WF_vars(PrivLedgerSteps)
    /\ WF_vars(TradeLedgerSteps)

----------------------------------------------------------------------------
\* What one serviced input did

IsText(e) == e.src = "frame" /\ e.msg.kind = "text"

\* Events sent / reconciliation calls made while entry i of a log was serviced.
EvSeg(log, i) ==
    SubSeq(events, log[i].ev0 + 1, IF i < Len(log) THEN log[i + 1].ev0 ELSE Len(events))

CallSeg(log, i) ==
    SubSeq(calls, log[i].c0 + 1, IF i < Len(log) THEN log[i + 1].c0 ELSE Len(calls))

\* The handler is through with entry i.
PrivDone(i) == i < Len(privLog) \/ privPc = "select"
TradeDone(i) == i < Len(tradeLog) \/ tradePc = "select"

\* The OrderResponse events of the calls that returned Ok, in call order.
RECURSIVE OrderEvsOf(_)
OrderEvsOf(cs) ==
    IF cs = <<>> THEN <<>>
    ELSE (IF Head(cs).res.ok
          THEN <<OrderEv(Head(cs).res.asset_no, Head(cs).res.order)>>
          ELSE <<>>) \o OrderEvsOf(Tail(cs))

\* One Trade / Position event for every item whose symbol is mapped.
RECURSIVE MappedTradeEvs(_)
MappedTradeEvs(items) ==
    IF items = <<>> THEN <<>>
    ELSE (IF Head(items).s \in DOMAIN Assets
          THEN <<TradeEv(Assets[Head(items).s], Head(items))>>
          ELSE <<>>) \o MappedTradeEvs(Tail(items))

RECURSIVE MappedPositionEvs(_)
MappedPositionEvs(items) ==
    IF items = <<>> THEN <<>>
    ELSE (IF Head(items).symbol \in DOMAIN Assets
          THEN <<PositionEv(Assets[Head(items).symbol], Head(items))>>
          ELSE <<>>) \o MappedPositionEvs(Tail(items))

IsTradeAuthFail(e) ==
    /\ IsText(e)
    /\ e.msg.text.k = "ack"
    /\ e.msg.text.op = "auth"
    /\ e.msg.text.ret_code # 0

IsPrivAuth(e, success) ==
    /\ IsText(e)
    /\ e.msg.text.k = "op"
    /\ e.msg.text.op = "auth"
    /\ e.msg.text.success = {success}

IsPrivAuthOk(e) == IsPrivAuth(e, TRUE)
IsPrivAuthReject(e) == IsPrivAuth(e, FALSE)

IsSubscribe(f) == f.op = "subscribe"

\* A failed order.create / order.cancel acknowledgement that carries a req_id.
IsFailedAck(e) == IsText(e) /\ e.msg.text \in TradeLocking

IsBatch(e) == IsText(e) /\ e.msg.text.k \in {"execution", "order"}

IsPublicTrade(e) ==
    /\ IsText(e)
    /\ e.msg.text.k = "topic"
    /\ StartsWith(e.msg.text.topic, "publicTrade")
    /\ e.msg.text.data.ok

IsPosition(e) == IsText(e) /\ e.msg.text.k = "position"

----------------------------------------------------------------------------
\* Claims

\* C1: on the trade session an auth acknowledgement with a non-zero result
\* code makes the handler send exactly one CriticalConnectionError event and
\* ends the connect_trade loop: it is the last input the session services.
C1_AuthFailureEndsTradeLoop ==
    \A i \in DOMAIN tradeLog :
        IsTradeAuthFail(tradeLog[i]) =>
            /\ EvSeg(tradeLog, i) =
                   <<ErrorEv("CriticalConnectionError", tradeLog[i].msg.text.ret_code,
                             tradeLog[i].msg.text.ret_msg)>>
            /\ i = Len(tradeLog)
            /\ tradeSt # "running"

\* C2: on the private session an auth acknowledgement with success=false
\* sends no subscription and ends the connect_private loop: no input is
\* serviced and no event is sent after it.
C2_AuthRejectEndsPrivateLoop ==
    \A i \in DOMAIN privLog :
        IsPrivAuthReject(privLog[i]) =>
            /\ privLog[i].io = "none"
            /\ i = Len(privLog)
            /\ privSt # "running"
            /\ Len(events) = privLog[i].ev0

\* C3: on the private session the subscribe frames handed to the socket are
\* exactly one per successful auth acknowledgement serviced so far, and no
\* other inbound text makes the handler write a frame.
C3_SubscribeOnlyAfterAuthOk ==
    /\ Count(privSent, IsSubscribe) = Count(privLog, IsPrivAuthOk)
    /\ \A f \in {privSent[j] : j \in DOMAIN privSent} :
           IsSubscribe(f) => f = PrivSubscribeOp
    /\ \A i \in DOMAIN privLog :
           (IsText(privLog[i]) /\ privLog[i].io # "none") => IsPrivAuthOk(privLog[i])

\* C3 witness: a successful auth acknowledgement was serviced after a
\* rejected one, and the one subscribe frame of the session was written.
C3_Witness ==
    /\ Len(privLog) = 2
    /\ IsPrivAuthReject(privLog[1])
    /\ IsPrivAuthOk(privLog[2])
    /\ privSent = <<AuthOp, PrivSubscribeOp>>

\* C4: a failed order.create / order.cancel acknowledgement whose req_id the
\* ledger resolves makes exactly one update_submit_fail / update_cancel_fail
\* call with that req_id and then sends exactly two events: the OrderResponse
\* with the pair the ledger returned, then an OrderError with the venue code
\* and message; after a failed order.create the order is SubmitRejected.
C4_FailedAckCallThenTwoEvents ==
    \A i \in DOMAIN tradeLog :
        (IsFailedAck(tradeLog[i]) /\ TradeDone(i)) =>
            LET t == tradeLog[i].msg.text
                cs == CallSeg(tradeLog, i)
            IN  /\ Len(cs) = 1
                /\ cs[1].by = "trade"
                /\ cs[1].fn = IF t.op = "order.create" THEN "update_submit_fail"
                              ELSE "update_cancel_fail"
                /\ cs[1].arg = Unwrap(t.req_id)
                /\ cs[1].res.ok =>
                       /\ EvSeg(tradeLog, i) =
                              <<OrderEv(cs[1].res.asset_no, cs[1].res.order),
                                ErrorEv("OrderError", t.ret_code, t.ret_msg)>>
                       /\ t.op = "order.create" =>
                              cs[1].res.order.status = "SubmitRejected"

\* C4 witness: a failed order.create for the Submitted order "a" was handled
\* to its end: the SubmitRejected update and the OrderError 10429 are out.
C4_Witness ==
    /\ tradePc = "select"
    /\ Len(tradeLog) >= 1
    /\ IsFailedAck(tradeLog[1])
    /\ tradeLog[1].msg.text.op = "order.create"
    /\ tradeLog[1].msg.text.req_id = {"a"}
    /\ Len(events) = 2
    /\ events[1].type = "Order" /\ events[1].order.status = "SubmitRejected"
    /\ events[2] = ErrorEv("OrderError", 10429, "rate limited")

\* C5: every failed order.create / order.cancel acknowledgement that carries
\* a req_id gets an OrderError event with the venue code and message on the
\* event channel, whatever the reconciliation call returned.
C5_ErrorEventWhateverTheLedgerSays ==
    \A i \in DOMAIN tradeLog :
        (IsFailedAck(tradeLog[i]) /\ TradeDone(i)) =>
            \E j \in DOMAIN EvSeg(tradeLog, i) :
                EvSeg(tradeLog, i)[j] =
                    ErrorEv("OrderError", tradeLog[i].msg.text.ret_code,
                            tradeLog[i].msg.text.ret_msg)

\* C6: the ledger lock is not held at the moment a handler sends an event:
\* it is released before the OrderResponse or OrderError goes out.
C6_LockReleasedBeforeSend ==
    /\ privPc \in {"exec_send", "order_send"} => lock # "private"
    /\ (tradePc = "send" /\ tradeRes # <<>>) => lock # "trade"

\* C7: in a publicTrade list or a position list every item whose symbol is
\* mapped produces its event with the asset index of the mapping, before or
\* after an item whose symbol is not mapped, and an unmapped item produces
\* none.
C7_SiblingsOfUnmappedItemEmitted ==
    /\ \A i \in DOMAIN pubLog :
           IsPublicTrade(pubLog[i]) =>
               EvSeg(pubLog, i) = MappedTradeEvs(pubLog[i].msg.text.data.list)
    /\ \A i \in DOMAIN privLog :
           IsPosition(privLog[i]) =>
               EvSeg(privLog, i) = MappedPositionEvs(privLog[i].msg.text.data)

\* C8: in an execution or order batch every item is passed to
\* update_execution / update_order in payload order, an OrderResponse is
\* sent for exactly the items the ledger accepted, and the private loop is
\* still running when the batch is done.
C8_RejectedItemDoesNotStopBatch ==
    \A i \in DOMAIN privLog :
        (IsBatch(privLog[i]) /\ PrivDone(i)) =>
            LET t == privLog[i].msg.text
                cs == CallSeg(privLog, i)
            IN  /\ Len(cs) = Len(t.data)
                /\ \A k \in DOMAIN cs :
                       /\ cs[k].arg = t.data[k]
                       /\ cs[k].fn = IF t.k = "execution" THEN "update_execution"
                                     ELSE "update_order"
                /\ EvSeg(privLog, i) = OrderEvsOf(cs)
                /\ i = Len(privLog) => privSt = "running"

\* C8 witness: a batch whose first item the ledger rejected and whose second
\* item it accepted is done, and the update of the second item is out.
C8_Witness ==
    /\ privPc = "select"
    /\ Len(privLog) = 1
    /\ IsBatch(privLog[1])
    /\ Len(calls) = 2
    /\ ~calls[1].res.ok
    /\ calls[2].res.ok
    /\ Len(events) = 1
    /\ privSt = "running"

\* A serviced input whose socket read or write failed is the last of its log,
\* and the session has returned the error.
FailureIsLast(log, st) ==
    \A i \in DOMAIN log :
        (log[i].io = "fail" \/ log[i].msg.kind = "readerr") =>
            (i = Len(log) /\ st = "err")

\* C9: in all three sessions a failed socket read or write is the last thing
\* the loop does: the session has returned the error.
C9_TransportFailureEndsLoop ==
    /\ FailureIsLast(pubLog, pubSt)
    /\ FailureIsLast(privLog, privSt)
    /\ FailureIsLast(tradeLog, tradeSt)

\* A public text the handler cannot decode: malformed frame, payload of the
\* wrong shape, unparseable price or quantity, unrecognised topic prefix.
IsUndecodable(text) ==
    \/ text.k = "malformed"
    \/ /\ text.k = "topic"
       /\ \/ ~StartsWith(text.topic, "orderbook") /\ ~StartsWith(text.topic, "publicTrade")
          \/ ~text.data.ok
          \/ StartsWith(text.topic, "orderbook")
               /\ ~parse_depth(text.data.b, text.data.a).ok

\* C10: in the public session a text that fails to decode produces no event
\* and leaves the loop running, and the loop ends only on a close frame, the
\* end of the stream or a transport error.
C10_DecodeFailureDropsFrameOnly ==
    /\ \A i \in DOMAIN pubLog :
           (IsText(pubLog[i]) /\ IsUndecodable(pubLog[i].msg.text)) =>
               /\ EvSeg(pubLog, i) = <<>>
               /\ i = Len(pubLog) => pubSt = "running"
    /\ (pubSt \notin {"init", "running"} /\ pubLog # <<>>) =>
           LET e == pubLog[Len(pubLog)]
           IN  \/ e.msg.kind \in {"close", "eos", "readerr"}
               \/ e.io = "fail"

\* An orderbook text that gets as far as the Depth event but has no cts.
IsOrderBookNoTs(e) ==
    /\ IsText(e)
    /\ e.msg.text.k = "topic"
    /\ StartsWith(e.msg.text.topic, "orderbook")
    /\ e.msg.text.cts = {}

\* C11: an orderbook frame without the venue timestamp fails that message
\* only: no Depth event is sent for it and the public session does not crash
\* (it is still running after the frame).
C11_MissingTimestampFailsMessageOnly ==
    \A i \in DOMAIN pubLog :
        IsOrderBookNoTs(pubLog[i]) =>
            /\ EvSeg(pubLog, i) = <<>>
            /\ pubSt # "panicked"
            /\ i = Len(pubLog) => pubSt = "running"

IsOrderEntry(e) == e.src = "order" /\ e.msg.kind = "order"

IsOrderFrame(f) == f.op \in {"order.create", "order.cancel"}

\* C12: the order-entry frames handed to the trade socket are, one for one
\* and in dequeue order, the requests taken from the intake queue: req_id is
\* the request's order_link_id, op its operation, the header holds the
\* timestamp and the receive window 5000; no acknowledgement is awaited
\* between two requests.
C12_OneFramePerRequestInOrder ==
    LET frames == SelectSeq(tradeSent, IsOrderFrame)
        reqs == SelectSeq(tradeLog, IsOrderEntry)
    IN  /\ Len(frames) = Len(reqs)
        /\ \A k \in DOMAIN frames :
               /\ frames[k].req_id = reqs[k].msg.req.order_link_id
               /\ frames[k].op = reqs[k].msg.req.op
               /\ DOMAIN frames[k].header = {"timestamp", "recv_window"}
               /\ frames[k].header.recv_window = "5000"
               /\ frames[k].args = <<reqs[k].msg.req.order_link_id>>

\* C12 witness: a create and a cancel request were dequeued back to back, no
\* acknowledgement in between, and both frames were written in that order.
C12_Witness ==
    /\ Len(tradeLog) = 2
    /\ IsOrderEntry(tradeLog[1]) /\ tradeLog[1].msg.req.op = "order.create"
    /\ IsOrderEntry(tradeLog[2]) /\ tradeLog[2].msg.req.op = "order.cancel"
    /\ Len(tradeSent) = 3
    /\ tradeSent[2].op = "order.create" /\ tradeSent[2].req_id = "a"
    /\ tradeSent[3].op = "order.cancel" /\ tradeSent[3].req_id = "a"
    /\ tradeSt = "running"

\* An acknowledgement the trade handler has nothing to do for: a successful
\* order.create / order.cancel, or an op other than auth and the two.
IsQuietAck(e) ==
    /\ IsText(e)
    /\ e.msg.text.k = "ack"
    /\ \/ /\ e.msg.text.op \in {"order.create", "order.cancel"}
          /\ e.msg.text.ret_code = 0
       \/ e.msg.text.op \notin {"auth", "order.create", "order.cancel"}

\* C13: a successful order.create / order.cancel acknowledgement, and an
\* acknowledgement of any op other than auth, order.create and order.cancel,
\* causes no ledger call and no event, and never takes the handler to the
\* ledger lock.
C13_QuietAckTouchesNothing ==
    \A i \in DOMAIN tradeLog :
        IsQuietAck(tradeLog[i]) =>
            /\ EvSeg(tradeLog, i) = <<>>
            /\ CallSeg(tradeLog, i) = <<>>
            /\ i = Len(tradeLog) => (tradePc = "select" /\ lock = "none")

\* C13 witness: a successful order.create acknowledgement for "a" and then a
\* pong acknowledgement were serviced; the ledger is as it started and no
\* event is out.
C13_Witness ==
    /\ Len(tradeLog) = 2
    /\ IsQuietAck(tradeLog[1])
    /\ tradeLog[1].msg.text.op = "order.create"
    /\ tradeLog[1].msg.text.req_id = {"a"}
    /\ IsQuietAck(tradeLog[2])
    /\ tradeLog[2].msg.text.op = "pong"
    /\ events = <<>>
    /\ calls = <<>>
    /\ ledger \in InitLedgers
    /\ tradeSt = "running"

\* A failed order.create / order.cancel acknowledgement without a req_id.
IsFailedAckNoReqId(e) ==
    /\ IsText(e)
    /\ e.msg.text.k = "ack"
    /\ e.msg.text.op \in {"order.create", "order.cancel"}
    /\ e.msg.text.ret_code # 0
    /\ e.msg.text.req_id = {}

\* C14: a failed order.create / order.cancel acknowledgement without a req_id
\* is an error for that message only: no reconciliation call, no OrderResponse
\* and no Error event, and the loop is ready for the next frame or request.
C14_MissingReqIdFailsMessageOnly ==
    \A i \in DOMAIN tradeLog :
        IsFailedAckNoReqId(tradeLog[i]) =>
            /\ EvSeg(tradeLog, i) = <<>>
            /\ CallSeg(tradeLog, i) = <<>>
            /\ i = Len(tradeLog) =>
                   /\ tradeSt = "running"
                   /\ tradePc = "select"
                   /\ lock = "none"

\* C14 witness: after a failed order.cancel acknowledgement without req_id the
\* loop took the next request off the queue and wrote its frame.
C14_Witness ==
    /\ Len(tradeLog) = 2
    /\ IsFailedAckNoReqId(tradeLog[1])
    /\ tradeLog[1].msg.text.op = "order.cancel"
    /\ IsOrderEntry(tradeLog[2])
    /\ tradeSent[Len(tradeSent)] = TradeOp(tradeLog[2].msg.req)
    /\ events = <<>>
    /\ calls = <<>>

\* A failed order.create / order.cancel acknowledgement whose req_id the
\* ledger does not know.
IsFailedAckUnknownId(e) == IsFailedAck(e) /\ e.msg.text.req_id = {UnknownId}

HasOrderEv(evs) == \E j \in DOMAIN evs : evs[j].type = "Order"

\* The handler has finished an acknowledgement for an unknown request id: one
\* call that returned Err, no OrderResponse event.
C15_AfterUnknownId ==
    \A i \in DOMAIN tradeLog :
        (IsFailedAckUnknownId(tradeLog[i]) /\ TradeDone(i)) =>
            /\ Len(CallSeg(tradeLog, i)) = 1
            /\ ~CallSeg(tradeLog, i)[1].res.ok
            /\ ~HasOrderEv(EvSeg(tradeLog, i))
            /\ i = Len(tradeLog) => (tradeSt = "running" /\ lock = "none")

\* The reconciliation call for an unknown request id leaves the ledger as it
\* was and takes the handler straight back to the select.
C15_UnknownIdCallStep ==
    (/\ tradePc = "call"
     /\ TradeCur.req_id = {UnknownId}
     /\ calls' # calls)
        => /\ ledger' = ledger
           /\ events' = events
           /\ tradePc' = "select"
           /\ tradeSt' = "running"

\* C15: update_submit_fail / update_cancel_fail called for a request id the
\* ledger does not know returns an error and leaves the ledger unchanged; the
\* trade handler sends no OrderResponse for that acknowledgement and the loop
\* goes on.
C15_UnknownIdIsErrorAndNoOp == []C15_AfterUnknownId /\ [][C15_UnknownIdCallStep]_vars

\* C15 witness: a failed order.create for the unknown id was handled (one
\* call, Err) and the loop then forwarded an order request.
C15_Witness ==
    /\ Len(tradeLog) = 2
    /\ IsFailedAckUnknownId(tradeLog[1])
    /\ tradeLog[1].msg.text.op = "order.create"
    /\ Len(calls) = 1
    /\ calls[1].fn = "update_submit_fail" /\ calls[1].arg = UnknownId
    /\ ~calls[1].res.ok
    /\ ledger \in InitLedgers
    /\ IsOrderEntry(tradeLog[2])
    /\ tradeSent[Len(tradeSent)] = TradeOp(tradeLog[2].msg.req)

\* No step changes the state of an entry that is in a terminal state.
TerminalStays ==
    \A id \in DOMAIN ledger :
        ledger[id].order.status \in Terminal =>
            ledger'[id].order.status = ledger[id].order.status

IsStop(e) ==
    \/ e.src = "frame" /\ e.msg.kind \in {"close", "eos"}
    \/ e.src = "order" /\ e.msg.kind = "closed"

\* A stop input is the last one the session serviced and connect_* returned Ok.
StopIsLastAndOk(log, st) ==
    \A i \in DOMAIN log : IsStop(log[i]) => (i = Len(log) /\ st = "ok")

C17_Stopped ==
    /\ StopIsLastAndOk(pubLog, pubSt)
    /\ StopIsLastAndOk(privLog, privSt)
    /\ StopIsLastAndOk(tradeLog, tradeSt)

\* A session that returned Ok writes no frame, services no input and sends no
\* event from then on (one session runs at a time, so every event is its own).
C17_NothingAfterOk ==
    /\ pubSt = "ok" => UNCHANGED <<pubSt, pubSent, pubLog, events>>
    /\ privSt = "ok" => UNCHANGED <<privSt, privSent, privLog, events, calls>>
    /\ tradeSt = "ok" => UNCHANGED <<tradeSt, tradeSent, tradeLog, events, calls>>

\* C17: each handler returns Ok when it receives an inbound close frame or
\* the inbound stream ends, the trade handler also when its intake queue is
\* closed; after that it writes no further frame and sends no further event.
C17_NormalTermination == []C17_Stopped /\ [][C17_NothingAfterOk]_vars

\* C17 witness: the trade loop forwarded one request, then found the intake
\* queue closed and returned Ok.
C17_Witness ==
    /\ Len(tradeLog) = 2
    /\ IsOrderEntry(tradeLog[1])
    /\ tradeLog[2].src = "order" /\ tradeLog[2].msg.kind = "closed"
    /\ tradeSt = "ok"
    /\ Len(tradeSent) = 2

\* Every "{topic}.{symbol}" of a configured topic and a tracked symbol.
AllTopicSymbols ==
    {<<PubTopics[t], s>> : t \in DOMAIN PubTopics, s \in DOMAIN Assets}

\* C18: a public session writes exactly one subscribe frame, as its first
\* frame and before any input is serviced; its args are "{topic}.{symbol}"
\* for every configured topic and tracked symbol, each once, and nothing
\* else; no other subscribe frame follows, whatever arrives.
C18_OneSubscribeForAllTopics ==
    /\ Len(SelectSeq(pubSent, IsSubscribe)) <= 1
    /\ (pubLog # <<>> \/ pubSt \in {"running", "ok", "panicked"}) => pubSent # <<>>
    /\ pubSent # <<>> =>
           /\ IsSubscribe(pubSent[1])
           /\ pubSent[1].req_id = "subscribe"
           /\ {pubSent[1].args[k] : k \in DOMAIN pubSent[1].args} = AllTopicSymbols
           /\ Len(pubSent[1].args) = Cardinality(AllTopicSymbols)

\* C18 witness: two texts were serviced after the subscription, one of them
\* producing an event, and the subscribe frame is still the only one.
C18_Witness ==
    /\ Len(pubLog) = 2
    /\ IsText(pubLog[1]) /\ IsText(pubLog[2])
    /\ events # <<>>
    /\ pubSt = "running"
    /\ Len(pubSent) = 1
    /\ IsSubscribe(pubSent[1])
    /\ Len(pubSent[1].args) = 4

\* The events the trade handler owes for entries i.. of its log, in log
\* order, starting from ledger l.
RECURSIVE TradeOwes(_, _)
TradeOwes(i, l) ==
    IF i > Len(tradeLog) THEN <<>>
    ELSE LET e == tradeLog[i]
         IN  IF IsTradeAuthFail(e)
             THEN <<ErrorEv("CriticalConnectionError", e.msg.text.ret_code,
                            e.msg.text.ret_msg)>> \o TradeOwes(i + 1, l)
             ELSE IF IsFailedAck(e)
             THEN LET id == Unwrap(e.msg.text.req_id)
                      r == IF e.msg.text.op = "order.create"
                           THEN update_submit_fail(l, id)
                           ELSE update_cancel_fail(l, id)
                  IN  (IF r.ok
                       THEN <<OrderEv(r.asset_no, r.order),
                              ErrorEv("OrderError", e.msg.text.ret_code,
                                      e.msg.text.ret_msg)>>
                       ELSE <<>>) \o TradeOwes(i + 1, r.ledger)
             ELSE TradeOwes(i + 1, l)

IsPrefix(s, t) == Len(s) <= Len(t) /\ SubSeq(t, 1, Len(s)) = s

\* The event channel of a trade session holds what its frames caused, frame
\* by frame in arrival order: all of it between iterations, a prefix of it
\* while the last frame is being handled.
C19_EventsFollowFrames ==
    tradeSt # "init" =>
        LET owed == TradeOwes(1, CHOOSE l \in InitLedgers : TRUE)
        IN  IF tradePc = "select" THEN events = owed ELSE IsPrefix(events, owed)

\* While a handler is at work on a frame its loop services no other source:
\* no input is taken and no frame is written.
C19_OneSourceAtATime ==
    /\ tradePc # "select" => UNCHANGED <<tradeLog, tradeSent>>
    /\ privPc # "select" => UNCHANGED <<privLog, privSent>>

\* C19: a handler services one source per iteration, to completion, and
\* frames in arrival order: its events are on the channel in the order of
\* the frames that caused them, and no ping or order frame is written between
\* the OrderResponse and the Error event of one failed acknowledgement.
C19_OneSourceToCompletionInOrder ==
    []C19_EventsFollowFrames /\ [][C19_OneSourceAtATime]_vars

\* C19 witness: a failed order.create for "a" put its OrderResponse and its
\* OrderError on the channel back to back; the tick that was due is serviced
\* only afterwards, its ping written after both events.
C19_Witness ==
    /\ Len(tradeLog) = 2
    /\ IsFailedAck(tradeLog[1])
    /\ tradeLog[1].msg.text.req_id = {"a"}
    /\ tradeLog[2].src = "tick"
    /\ tradeLog[2].ev0 = 2
    /\ Len(events) = 2
    /\ events[1].type = "Order" /\ events[2].type = "Error"
    /\ tradeSent = <<AuthOp, PingOp>>

IsTradeAuthAck(e) == IsText(e) /\ e.msg.text.k = "ack" /\ e.msg.text.op = "auth"

\* The session is established, a request is waiting, and the loop has room
\* for one more iteration.
RequestWaiting ==
    /\ tradeSent # <<>>
    /\ orderQ.items # <<>>
    /\ Len(tradeLog) < MaxIter

\* C20: the trade handler does not gate order forwarding on authentication.
\* The auth frame is the first frame of the session; a waiting request can be
\* forwarded right after an auth acknowledgement with a non-zero result code,
\* and while no auth acknowledgement has arrived at all; and every request
\* dequeued has its order-entry frame on the socket whatever preceded it.
C20_OrdersNotGatedOnAuth ==
    /\ tradeSent # <<>> => tradeSent[1].op = "auth"
    /\ tradeLog # <<>> => tradeSent # <<>>
    /\ (/\ RequestWaiting
        /\ tradeLog # <<>>
        /\ IsTradeAuthFail(tradeLog[Len(tradeLog)]))
           => ENABLED TradeOrder
    /\ (/\ RequestWaiting
        /\ tradeSt = "running"
        /\ tradePc = "select"
        /\ \A i \in DOMAIN tradeLog : ~IsTradeAuthAck(tradeLog[i]))
           => ENABLED TradeOrder
    /\ \A i \in DOMAIN tradeLog :
           IsOrderEntry(tradeLog[i]) =>
               \E k \in DOMAIN tradeSent :
                   /\ k > 1
                   /\ tradeSent[k].op = tradeLog[i].msg.req.op
                   /\ tradeSent[k].req_id = tradeLog[i].msg.req.order_link_id

\* C20 witness: the auth acknowledgement came back with a non-zero result
\* code, and the request dequeued after it was written as an order-entry frame.
C20_Witness ==
    /\ Len(tradeLog) = 2
    /\ IsTradeAuthFail(tradeLog[1])
    /\ IsOrderEntry(tradeLog[2])
    /\ tradeLog[2].io = "ok"
    /\ Len(tradeSent) = 2
    /\ tradeSent[1].op = "auth"
    /\ tradeSent[2].op = tradeLog[2].msg.req.op
    /\ tradeSent[2].req_id = "a"
    /\ tradeSt = "running"

\* Where each handler stands with respect to the ledger lock.
PrivWaits == privPc \in {"exec_lock", "order_lock"}
PrivHolds == privPc \in {"exec_call", "exec_send", "order_call", "order_send",
                         "order_unlock"}
TradeWaits == tradePc = "lock"
TradeHolds == tradePc \in {"call", "send"}

\* At most one handler is between its lock() and the drop of its guard, the
\* lock names that handler, and a handler back at its select holds nothing.
C21_OneHolder ==
    /\ ~(PrivHolds /\ TradeHolds)
    /\ PrivHolds <=> lock = "private"
    /\ TradeHolds <=> lock = "trade"
    /\ (privPc = "select" /\ tradePc = "select") => lock = "none"

\* Every call on the ledger is made by the handler that holds the lock, and
\* the ledger changes in no other way.
C21_CallUnderLock ==
    /\ calls' # calls =>
           /\ Len(calls') = Len(calls) + 1
           /\ lock = calls'[Len(calls')].by
           /\ calls'[Len(calls')].by = "private" => PrivHolds
           /\ calls'[Len(calls')].by = "trade" => TradeHolds
    /\ ledger' # ledger => calls' # calls

\* C21: with the private and the trade handler on the shared ledger, every
\* ledger call is made under the lock, at most one handler holds the lock,
\* every acquisition is released by the end of the frame that took it (after
\* a reconciliation error too), and a handler waiting for the lock gets it:
\* no deadlock.
C21_LockDiscipline ==
    /\ []C21_OneHolder
    /\ [][C21_CallUnderLock]_vars
    /\ PrivWaits ~> PrivHolds
    /\ TradeWaits ~> TradeHolds
    /\ PrivHolds ~> ~PrivHolds
    /\ TradeHolds ~> ~TradeHolds

\* C21 witness: the private handler, between two items of an order batch, is
\* waiting for the lock that the trade handler took in the meantime for a
\* failed acknowledgement.
C21_Witness ==
    /\ privPc = "order_lock"
    /\ Len(calls) >= 1
    /\ calls[1].by = "private"
    /\ tradePc = "call"
    /\ lock = "trade"

====
